---- MODULE Spec2Model ----
(***************************************************************************)
(* Event log store, retention sweeper, log query/delete surface and        *)
(* request telemetry of backend/main.py.                                   *)
(*                                                                         *)
(* Time is counted in ticks, TicksPerHour to the hour.  A timestamp is the *)
(* TEXT the code stores: the characters datetime.isoformat() writes, kept  *)
(* as a sequence of character codes, and compared the way SQLite compares  *)
(* TEXT (byte by byte, a proper prefix first).  A Python None / SQL NULL   *)
(* is the empty set and a value v is {v}.                                  *)
(***************************************************************************)
EXTENDS Integers, Sequences, FiniteSets, TLC

VARIABLES
    now,        \* the wall clock read by datetime.utcnow(), in ticks
    logs,       \* the rows of table system_logs
    seq,        \* sqlite_sequence of system_logs: the largest id ever given
    sweep,      \* a retention sweep in progress: its cutoff is computed, its DELETE not yet run
    ev,         \* the operation that made the last step, its inputs and its result
    inflight,   \* the request LoggingMiddleware.dispatch is handling
    pages,      \* the pages a client has fetched so far, offset after offset
    proc,       \* startup_event and the periodic_log_cleanup task: where each stands
    hub         \* manager.active_connections and each websocket_realtime handler

vars == <<now, logs, seq, sweep, ev, inflight, pages, proc, hub>>

----------------------------------------------------------------------------
(* Bounds of the model *)

TicksPerHour == 2
MaxOld == 2
MaxTicks == 2
MaxSeq == 4

----------------------------------------------------------------------------
(* Program constants *)

LOG_RETENTION_HOURS == 48

----------------------------------------------------------------------------
(* Optional values *)

None == {}
Some(v) == {v}
Val(o) == CHOOSE v \in o : TRUE

\* The elements of a list.
Range(q) == {q[i] : i \in 1..Len(q)}

----------------------------------------------------------------------------
(* Text *)

Digit(d) == 48 + d
Dot == 46

\* datetime.isoformat(): zero-padded fields of fixed width, and the fraction
\* written only when it is not zero.
isoformat(t) ==
    LET h == t \div TicksPerHour
        f == t % TicksPerHour
    IN  <<Digit(h \div 10), Digit(h % 10)>>
            \o (IF f = 0 THEN <<>> ELSE <<Dot, Digit(f)>>)

\* SQLite's comparison of two TEXT values (BINARY collation): a < b.
RECURSIVE TextLess(_, _)
TextLess(a, b) ==
    IF b = <<>> THEN FALSE
    ELSE IF a = <<>> THEN TRUE
    ELSE IF Head(a) # Head(b) THEN Head(a) < Head(b)
    ELSE TextLess(Tail(a), Tail(b))

TextLeq(a, b) == ~TextLess(b, a)

\* Mutant: every text that is present is true, the empty one too.
TruthyWhenPresent(o) == o # None

\* Python's truth value of an optional str, as in `if before:`: None and ""
\* are false.  TruthyText reads a text kept as character codes, TruthyStr a
\* text kept as a TLA+ string.
TruthyText(o) == o # None /\ Val(o) # <<>>
TruthyStr(o) == o # None /\ Val(o) # ""

----------------------------------------------------------------------------
(* The store *)

\* The row log_event inserts (lines 70-86); id is given by AUTOINCREMENT.
NewRow(id, t, a) ==
    [ id              |-> id,
      timestamp       |-> isoformat(t),
      profile_id      |-> a.profile_id,
      username        |-> IF TruthyStr(a.username) THEN Val(a.username) ELSE "anonymous",
      level           |-> a.level,
      category        |-> a.category,
      endpoint        |-> a.endpoint,
      method          |-> a.method,
      message         |-> a.message,
      request_body    |-> a.request_body,
      response_status |-> a.response_status ]

\* The arguments of a log_event call; the keyword arguments default to None.
Args(level, category, message, profile_id, username, endpoint, method, status) ==
    [ level |-> level, category |-> category, message |-> message,
      profile_id |-> profile_id, username |-> username, endpoint |-> endpoint,
      method |-> method, request_body |-> None, response_status |-> status ]

\* Mutant: the id is the last one given.
NextIdReused(sq) == IF sq = 0 THEN 1 ELSE sq

\* INTEGER PRIMARY KEY AUTOINCREMENT: one more than the largest id ever given.
NextId(sq) == sq + 1

\* Mutant: the INSERT also stamps the rows already there with the time of
\* the new one.
InsertRestamps(rows, sq, t, a) ==
    {[r EXCEPT !.timestamp = isoformat(t)] : r \in rows} \cup {NewRow(sq + 1, t, a)}

\* INSERT INTO system_logs ... ; commit
Insert(rows, sq, t, a) == rows \cup {NewRow(NextId(sq), t, a)}

\* Mutant: the retention is added to the clock, not subtracted from it.
CutoffSignFlipped(t) == isoformat(t + LOG_RETENTION_HOURS * TicksPerHour)

\* cutoff = (datetime.utcnow() - timedelta(hours=LOG_RETENTION_HOURS)).isoformat()
Cutoff(t) == isoformat(t - LOG_RETENTION_HOURS * TicksPerHour)

\* Mutant: WHERE timestamp <= ?
DeleteBeforeOrAt(rows, text) == {r \in rows : TextLess(text, r.timestamp)}

\* DELETE FROM system_logs WHERE timestamp < ?
DeleteBefore(rows, text) == {r \in rows : ~TextLess(r.timestamp, text)}

\* cursor.rowcount of a DELETE that turned `rows` into `left`
RowCount(rows, left) == Cardinality(rows) - Cardinality(left)

\* The rows clear_logs leaves (lines 341-350): the DELETE, with or without a
\* cutoff, and then the audit event, written by log_event after the commit.
\* Mutant: the DELETE with a cutoff is run on both branches, with an empty
\* cutoff when none is given.
ClearDeleteAlwaysCutoff(rows, before) ==
    DeleteBefore(rows, IF before = None THEN <<>> ELSE Val(before))

\* Mutant: the cutoff itself is deleted too (<=).
ClearDeleteInclusive(rows, before) ==
    IF TruthyText(before) THEN {r \in rows : TextLess(Val(before), r.timestamp)} ELSE {}

ClearDelete(rows, before) ==
    IF TruthyText(before) THEN DeleteBefore(rows, Val(before)) ELSE {}

AuditArgs(deleted) ==
    Args("info", "SYSTEM", <<"Cleared", deleted>>, None, None,
         Some("/api/logs"), Some("DELETE"), None)

\* Mutant: the audit event is written before the DELETE runs.
ClearLogsRowsAuditFirst(rows, sq, t, before) ==
    ClearDelete(Insert(rows, sq, t, AuditArgs(RowCount(rows, ClearDelete(rows, before)))),
                before)

ClearLogsRows(rows, sq, t, before) ==
    LET left == ClearDelete(rows, before)
    IN  Insert(left, sq, t, AuditArgs(RowCount(rows, left)))

----------------------------------------------------------------------------
(* The store specification: the clock, log_event, the retention sweep and   *)
(* clear_logs, run against a database file that earlier runs have filled.   *)

H(hours) == hours * TicksPerHour

\* The instant the process starts at.
Boot == H(LOG_RETENTION_HOURS + 2)

\* Ages, at Boot, of the rows earlier runs left in the database file.
OldAges ==
    { H(LOG_RETENTION_HOURS + 1), H(LOG_RETENTION_HOURS) + 1, H(LOG_RETENTION_HOURS), H(9) }

\* What the middleware logs for GET /api/time/now (lines 205-216).
ApiArgs(method, path, status, level, profile_id, username) ==
    Args(level, "API", <<method, path>>, profile_id, username,
         Some(path), Some(method), Some(status))

OldArgs == ApiArgs("GET", "/api/time/now", 200, "info", None, Some("anonymous"))

\* Rows are written in id order by a clock that does not run backwards.
OldStores ==
    { {NewRow(i, Boot - s[i], OldArgs) : i \in 1..Len(s)} :
        s \in { q \in UNION {[1..n -> OldAges] : n \in 0..MaxOld} :
                  \A i \in 1..(Len(q) - 1) : q[i] >= q[i + 1] } }

\* The log_event call of startup_event (line 245).
StartedArgs ==
    Args("info", "SYSTEM", <<"Server started">>, None, None, Some("/"), Some("STARTUP"), None)
EmitArgs == {StartedArgs}

\* The `before` query parameter of DELETE /api/logs.
BeforeInputs ==
    {None, Some(<<>>)} \cup
    {Some(isoformat(t)) : t \in {Boot - H(9), Boot + 1, Boot + H(LOG_RETENTION_HOURS)}}

NoEvent == [op |-> "none"]
Idle == [pc |-> "idle"]
NoRequest == [pc |-> "none"]
NoSession == [open |-> FALSE]
NoProcess == [pc |-> "none"]
NoHub == [active |-> <<>>]

Init ==
    /\ now = Boot
    /\ logs \in OldStores
    /\ seq = Cardinality(logs)
    /\ sweep = Idle
    /\ ev = NoEvent
    /\ inflight = NoRequest
    /\ pages = NoSession
    /\ proc = NoProcess
    /\ hub = NoHub

\* The clock advances.
Tick ==
    /\ now < Boot + MaxTicks
    /\ now' = now + 1
    /\ ev' = [op |-> "tick"]
    /\ UNCHANGED <<logs, seq, sweep, inflight, pages, proc, hub>>

\* log_event (lines 63-88): one INSERT and its commit, or sqlite3 raises.
LogEvent(a, ok) ==
    /\ seq < MaxSeq
    /\ IF ok
         THEN logs' = Insert(logs, seq, now, a) /\ seq' = NextId(seq)
         ELSE UNCHANGED <<logs, seq>>
    /\ ev' = [op |-> "log_event", ok |-> ok]
    /\ UNCHANGED <<now, sweep, inflight, pages, proc, hub>>

\* cleanup_old_logs, line 100: the cutoff is computed in Python before the
\* DELETE is handed to SQLite.
SweepBegin ==
    /\ sweep.pc = "idle"
    /\ sweep' = [pc |-> "delete", cutoff |-> Cutoff(now), at |-> now, seq0 |-> seq]
    /\ ev' = [op |-> "sweep_begin"]
    /\ UNCHANGED <<now, logs, seq, inflight, pages, proc, hub>>

\* cleanup_old_logs, lines 101-107: the DELETE and its commit, or sqlite3 raises.
SweepDelete(ok) ==
    /\ sweep.pc = "delete"
    /\ logs' = IF ok THEN DeleteBefore(logs, sweep.cutoff) ELSE logs
    /\ sweep' = Idle
    /\ ev' = IF ok
             THEN [op |-> "cleanup_old_logs", ok |-> TRUE, at |-> sweep.at,
                   seq0 |-> sweep.seq0, deleted |-> RowCount(logs, logs')]
             ELSE [op |-> "cleanup_old_logs", ok |-> FALSE]
    /\ UNCHANGED <<now, seq, inflight, pages, proc, hub>>

\* clear_logs (lines 335-351).  The handler has no await: it runs as one step.
\* The DELETE is committed (line 347) before log_event writes the audit event
\* (line 350), which may raise.
ClearLogs(before, okAudit) ==
    /\ seq < MaxSeq
    /\ IF okAudit
         THEN logs' = ClearLogsRows(logs, seq, now, before) /\ seq' = NextId(seq)
         ELSE logs' = ClearDelete(logs, before) /\ UNCHANGED seq
    /\ ev' = [op |-> "clear_logs", before |-> before, deleteOk |-> TRUE, ok |-> okAudit,
              deleted |-> RowCount(logs, ClearDelete(logs, before))]
    /\ UNCHANGED <<now, sweep, inflight, pages, proc, hub>>

\* clear_logs when its DELETE raises (lines 342, 344): nothing is committed.
ClearLogsRaises ==
    /\ ev' = [op |-> "clear_logs", deleteOk |-> FALSE, ok |-> FALSE]
    /\ UNCHANGED <<now, logs, seq, sweep, inflight, pages, proc, hub>>

Next ==
    \/ Tick
    \/ \E a \in EmitArgs, ok \in BOOLEAN : LogEvent(a, ok)
    \/ SweepBegin
    \/ \E ok \in BOOLEAN : SweepDelete(ok)
    \/ \E b \in BeforeInputs, okAudit \in BOOLEAN : ClearLogs(b, okAudit)
    \/ ClearLogsRaises

Spec == Init /\ [][Next]_vars

----------------------------------------------------------------------------
(* The request specification: LoggingMiddleware.dispatch around a handler,  *)
(* one request at a time, against a database that starts empty.             *)

Methods == {"GET", "POST"}
Paths == {"/api/time/now", "/api/health", "/static/app.js"}
\* The X-Profile-ID header: absent, "7", "x" or the superscript two (byte B2,
\* which the header decodes to as latin-1).
ProfileHeaders == {None, Some(<<55>>), Some(<<120>>), Some(<<178>>)}
\* The status of the response call_next returns.
Statuses == {200, 399, 400, 499, 500}

\* str.startswith("/static"), over Paths
StartsWithStatic(path) == path \in {"/static/app.js"}

\* str.isdigit() and int() of a header value kept as character codes
\* str.isdigit() is true of the superscript digits too; int() reads ASCII
\* digits only and raises ValueError on the others.
IsDigit(text) ==
    text # <<>> /\ \A i \in 1..Len(text) : text[i] \in (48..57) \cup {178, 179, 185}
IntRaises(text) == \E i \in 1..Len(text) : text[i] \notin 48..57
RECURSIVE ToInt(_)
ToInt(text) ==
    IF text = <<>> THEN 0 ELSE 10 * ToInt(SubSeq(text, 1, Len(text) - 1)) + (text[Len(text)] - 48)

\* Mutant: the two comparisons are strict.
LevelStrict(status) ==
    IF status > 500 THEN "error" ELSE IF status > 400 THEN "warning" ELSE "info"

\* lines 194-200
Level(status) ==
    IF status >= 500 THEN "error" ELSE IF status >= 400 THEN "warning" ELSE "info"

\* line 204
Logged(path) == ~StartsWithStatic(path) /\ path # "/api/health"

\* line 209
ProfileId(header) ==
    IF header # None /\ Val(header) # <<>> /\ IsDigit(Val(header))
    THEN Some(ToInt(Val(header))) ELSE None

\* line 209 raises: the header passes isdigit() and int() rejects it.
ProfileIdRaises(header) ==
    header # None /\ Val(header) # <<>> /\ IsDigit(Val(header)) /\ IntRaises(Val(header))

\* The methods whose body dispatch reads (line 181).
BodyMethods == {"POST", "PUT", "PATCH"}

\* The number of characters of the body that are kept (line 184).
BodyCap == 1000

\* A text of n copies of the character or byte b.
Rep(n, b) == [i \in 1..n |-> b]

\* bytes.decode("utf-8") of a body kept as a sequence of bytes: one character
\* for a byte below 0x80 and one for a lead byte 0xC2..0xDF followed by a
\* continuation byte 0x80..0xBF.  Every other byte met in Bodies is one no
\* UTF-8 text holds, and decode raises UnicodeDecodeError on it.  (The three-
\* and four-byte forms do not occur in Bodies.)
IsContinuation(b) == b \in 128..191
IsLead2(b) == b \in 194..223
WellFormed(bytes) ==
    \A i \in 1..Len(bytes) :
        \/ bytes[i] < 128
        \/ IsLead2(bytes[i]) /\ i < Len(bytes) /\ IsContinuation(bytes[i + 1])
        \/ IsContinuation(bytes[i]) /\ i > 1 /\ IsLead2(bytes[i - 1])
DecodeRaises(bytes) == ~WellFormed(bytes)
\* The character that starts at position i.
CharAt(bytes, i) ==
    IF bytes[i] < 128 THEN bytes[i]
    ELSE (bytes[i] % 32) * 64 + (bytes[i + 1] % 64)
\* The characters of the bytes lo..hi of a well-formed text, where a
\* character starts at lo and one ends at hi.  The range is cut in two
\* between two characters.
RECURSIVE DecodeRange(_, _, _)
DecodeRange(bytes, lo, hi) ==
    IF lo > hi THEN <<>>
    ELSE IF hi = lo \/ (hi = lo + 1 /\ IsLead2(bytes[lo])) THEN <<CharAt(bytes, lo)>>
    ELSE LET mid == (lo + hi) \div 2
             cut == IF IsContinuation(bytes[mid + 1]) THEN mid - 1 ELSE mid
         IN  DecodeRange(bytes, lo, cut) \o DecodeRange(bytes, cut + 1, hi)
Decode(bytes) == DecodeRange(bytes, 1, Len(bytes))

\* Mutant: the whole text is kept.
SliceAll(text) == text

\* text[:1000]
Slice(text) == IF Len(text) <= BodyCap THEN text ELSE SubSeq(text, 1, BodyCap)

\* dispatch, lines 179-186: the request_body that is logged.  body is what
\* request.body() does: it raises (readable is FALSE) or returns the bytes.
\* An exception of body() or of decode is swallowed by the bare except and
\* request_body stays None; an empty body gives None too.
RequestBody(method, body) ==
    IF method \notin BodyMethods THEN None
    ELSE IF ~body.readable THEN None
    ELSE IF body.bytes = <<>> THEN None
    ELSE IF DecodeRaises(body.bytes) THEN None
    ELSE Some(Slice(Decode(body.bytes)))

\* A request without a body.
NoBody == [readable |-> TRUE, bytes |-> <<>>]

\* The methods, paths and bodies of the requests of the capture specification.
CaptureMethods == {"GET", "POST", "PUT", "PATCH", "DELETE"}
CapturePaths == {"/api/time/now", "/api/health"}

\* The bodies: b"", b"ab", BodyCap times b"a", one more b"a", an e-acute
\* (two bytes) followed by BodyCap times b"a", the byte FF, and a body whose
\* read raises (the client has gone).
Bodies ==
    { NoBody,
      [readable |-> TRUE, bytes |-> <<97, 98>>],
      [readable |-> TRUE, bytes |-> Rep(BodyCap, 97)],
      [readable |-> TRUE, bytes |-> Rep(BodyCap + 1, 97)],
      [readable |-> TRUE, bytes |-> <<195, 169>> \o Rep(BodyCap, 97)],
      [readable |-> TRUE, bytes |-> <<255>>],
      [readable |-> FALSE, bytes |-> <<>>] }

\* RequestBody of every method and body, worked out once.
Captured == [m \in CaptureMethods |-> [b \in Bodies |-> RequestBody(m, b)]]

\* The log_event call of dispatch (lines 205-216).
DispatchArgs(req, status) ==
    [ApiArgs(req.method, req.path, status, Level(status), ProfileId(req.profile_id),
             Some("anonymous")) EXCEPT !.request_body = req.request_body]

MaxLogged == 2

InitHttp ==
    /\ now = Boot
    /\ logs = {}
    /\ seq = 0
    /\ sweep = Idle
    /\ ev = NoEvent
    /\ inflight = NoRequest
    /\ pages = NoSession
    /\ proc = NoProcess
    /\ hub = NoHub

\* dispatch, lines 173-186: a request arrives and its body is captured.
Receive(method, path, header, body) ==
    /\ inflight.pc \in {"none", "returned", "raised", "failed"}
    /\ seq < MaxLogged
    /\ inflight' = [pc |-> "received",
                    req |-> [method |-> method, path |-> path, profile_id |-> header,
                             body |-> body,
                             request_body |-> Captured[method][body]]]
    /\ UNCHANGED <<now, logs, seq, sweep, ev, pages, proc, hub>>

\* Mutant: the event is written when the handler is called, with the status
\* the handler is about to answer.
CallNextLogsFirst(status) ==
    /\ inflight.pc = "received"
    /\ IF Logged(inflight.req.path) /\ ~ProfileIdRaises(inflight.req.profile_id)
       THEN /\ logs' = Insert(logs, seq, now, DispatchArgs(inflight.req, status))
            /\ seq' = NextId(seq)
       ELSE UNCHANGED <<logs, seq>>
    /\ inflight' = [inflight EXCEPT !.pc = "responded"] @@ [response |-> [status_code |-> status]]
    /\ UNCHANGED <<now, sweep, ev, pages, proc, hub>>

\* dispatch, line 189: call_next returns the handler's response.
CallNext(status) ==
    /\ inflight.pc = "received"
    /\ inflight' = [inflight EXCEPT !.pc = "responded"] @@ [response |-> [status_code |-> status]]
    /\ UNCHANGED <<now, logs, seq, sweep, ev, pages, proc, hub>>

\* dispatch, line 189: the handler raises an exception that no exception
\* handler turns into a response.  call_next raises it again in dispatch,
\* which has no try around it: nothing after line 189 runs.
CallNextRaises ==
    /\ inflight.pc = "received"
    /\ inflight' = [inflight EXCEPT !.pc = "failed"]
    /\ UNCHANGED <<now, logs, seq, sweep, ev, pages, proc, hub>>

\* dispatch, lines 191-218: the event is written, unless the path is
\* excluded, and the response is returned.  log_event is called outside any
\* try: when building its arguments raises (line 209) or its INSERT raises,
\* the exception leaves dispatch and the response is not returned.
LogAndReturn(ok) ==
    /\ inflight.pc = "responded"
    /\ LET req == inflight.req
           response == inflight.response
       IN  IF ~Logged(req.path)
           THEN /\ inflight' = [inflight EXCEPT !.pc = "returned"] @@ [returned |-> response]
                /\ UNCHANGED <<logs, seq>>
           ELSE IF ok /\ ~ProfileIdRaises(req.profile_id)
           THEN /\ logs' = Insert(logs, seq, now, DispatchArgs(req, response.status_code))
                /\ seq' = NextId(seq)
                /\ inflight' = [inflight EXCEPT !.pc = "returned"] @@ [returned |-> response]
           ELSE /\ inflight' = [inflight EXCEPT !.pc = "raised"]
                /\ UNCHANGED <<logs, seq>>
    /\ UNCHANGED <<now, sweep, ev, pages, proc, hub>>

NextHttp ==
    \/ \E m \in Methods, p \in Paths, h \in ProfileHeaders : Receive(m, p, h, NoBody)
    \/ \E s \in Statuses : CallNext(s)
    \/ CallNextRaises
    \/ \E ok \in BOOLEAN : LogAndReturn(ok)

SpecHttp == InitHttp /\ [][NextHttp]_vars

----------------------------------------------------------------------------
(* The capture specification: dispatch on requests of every method, with    *)
(* bodies that are empty, short, as long as the cap, longer than the cap,   *)
(* not UTF-8 and unreadable.                                                *)

NextCapture ==
    \/ \E m \in CaptureMethods, p \in CapturePaths, b \in Bodies : Receive(m, p, None, b)
    \/ CallNext(200)
    \/ CallNextRaises
    \/ \E ok \in BOOLEAN : LogAndReturn(ok)

SpecCapture == InitHttp /\ [][NextCapture]_vars

----------------------------------------------------------------------------
(* The query specification: get_logs called again and again on a store that *)
(* does not change.                                                         *)

MaxRows == 3

\* The WHERE clause get_logs builds (lines 278-295): a clause is added for
\* profile_id when it is not None, and for the others when they are truthy.
\* Mutant: the until clause compares with <.
MatchesUntilExclusive(r, f) ==
    /\ (f.profile_id # None => r.profile_id = f.profile_id)
    /\ (TruthyStr(f.level) => r.level = Val(f.level))
    /\ (TruthyStr(f.category) => r.category = Val(f.category))
    /\ (TruthyText(f.since) => ~TextLess(r.timestamp, Val(f.since)))
    /\ (TruthyText(f.until) => TextLess(r.timestamp, Val(f.until)))

Matches(r, f) ==
    /\ (f.profile_id # None => r.profile_id = f.profile_id)
    /\ (TruthyStr(f.level) => r.level = Val(f.level))
    /\ (TruthyStr(f.category) => r.category = Val(f.category))
    /\ (TruthyText(f.since) => TextLeq(Val(f.since), r.timestamp))
    /\ (TruthyText(f.until) => TextLeq(r.timestamp, Val(f.until)))

Select(rows, f) == {r \in rows : Matches(r, f)}

\* ORDER BY timestamp DESC (line 297): the rows in any order that puts no
\* timestamp before a larger one.  SQLite leaves the order of rows with equal
\* ORDER BY values undefined, and the statement names no other column.
DescOrders(rows) ==
    LET n == Cardinality(rows)
    IN  { p \in [1..n -> rows] :
            /\ \A i, j \in 1..n : i # j => p[i] # p[j]
            /\ \A i \in 1..(n - 1) : TextLeq(p[i + 1].timestamp, p[i].timestamp) }

\* Mutant: OFFSET skips one row more.
LimitOffsetSkipsOne(p, limit, offset) ==
    LET o == IF offset < 0 THEN 1 ELSE offset + 1
        rest == IF o >= Len(p) THEN <<>> ELSE SubSeq(p, o + 1, Len(p))
    IN  IF limit < 0 \/ limit >= Len(rest) THEN rest ELSE SubSeq(rest, 1, limit)

\* LIMIT ? OFFSET ? (line 297), as SQLite reads them: a negative LIMIT is no
\* limit, a negative OFFSET is 0.
LimitOffset(p, limit, offset) ==
    LET o == IF offset < 0 THEN 0 ELSE offset
        rest == IF o >= Len(p) THEN <<>> ELSE SubSeq(p, o + 1, Len(p))
    IN  IF limit < 0 \/ limit >= Len(rest) THEN rest ELSE SubSeq(rest, 1, limit)

\* Mutant: the count query leaves the level clause out.
CountIgnoringLevel(rows, f) == Cardinality(Select(rows, [f EXCEPT !.level = None]))

\* SELECT COUNT(*) with the same clauses (lines 304-323)
Count(rows, f) == Cardinality(Select(rows, f))

\* The rows of the stores queried: an API event of a request answered 500
\* under X-Profile-ID 7, and the AUTH event of a failed login (line 470).
FailedLoginArgs ==
    Args("warning", "AUTH", <<"Failed login attempt for:", "bob">>, None, Some("bob"),
         Some("/api/auth/login"), Some("POST"), Some(401))
QueryArgs ==
    { DispatchArgs([method |-> "GET", path |-> "/api/time/now", profile_id |-> Some(<<55>>),
                    request_body |-> None], 500),
      FailedLoginArgs }
QueryTimes == {Boot, Boot + 1}

\* Stores the program can have written: ids in the order of the clock.
QueryStores ==
    { {NewRow(i, s[i][1], s[i][2]) : i \in 1..Len(s)} :
        s \in { q \in UNION {[1..n -> QueryTimes \X QueryArgs] : n \in 0..MaxRows} :
                  \A i \in 1..(Len(q) - 1) : q[i][1] <= q[i + 1][1] } }

\* The filters of a call: every subset of the five with one value each, and
\* the values Python reads as false or SQLite matches with nothing.
NoFilter ==
    [profile_id |-> None, level |-> None, category |-> None, since |-> None, until |-> None]
MainFilters ==
    [ profile_id : {None, Some(7)}, level : {None, Some("error")},
      category : {None, Some("AUTH")}, since : {None, Some(isoformat(Boot + 1))},
      until : {None, Some(isoformat(Boot))} ]
EdgeFilters ==
    UNION { { [f EXCEPT !.profile_id = Some(0)], [f EXCEPT !.level = Some("")],
              [f EXCEPT !.category = Some("")], [f EXCEPT !.since = Some(<<>>)],
              [f EXCEPT !.until = Some(<<>>)] } :
            f \in {NoFilter, [NoFilter EXCEPT !.profile_id = Some(7)]} }
Filters == MainFilters \cup EdgeFilters
Limits == {-1, 0, 1, 2}
Offsets == {-1} \cup 0..MaxRows

InitQuery ==
    /\ now = Boot + 1
    /\ logs \in QueryStores
    /\ seq = Cardinality(logs)
    /\ sweep = Idle
    /\ ev = NoEvent
    /\ inflight = NoRequest
    /\ pages = NoSession
    /\ proc = NoProcess
    /\ hub = NoHub

\* get_logs (lines 264-332): the page and the total of one call.
GetLogsResult(rows, f, limit, offset, p) ==
    [op |-> "get_logs", filter |-> f, limit |-> limit, offset |-> offset,
     logs |-> LimitOffset(p, limit, offset), total |-> Count(rows, f)]

\* A client's first call of get_logs.  A call with offset 0 and a limit of at
\* least 1 starts a walk through the pages.
GetLogs(f, limit, offset) ==
    /\ ev = NoEvent
    /\ \E p \in DescOrders(Select(logs, f)) :
          /\ ev' = GetLogsResult(logs, f, limit, offset, p)
          /\ pages' = IF limit >= 1 /\ offset = 0
                       THEN [open |-> TRUE, filter |-> f, limit |-> limit, got |-> <<ev'.logs>>]
                       ELSE NoSession
    /\ UNCHANGED <<now, logs, seq, sweep, inflight, proc, hub>>

\* The client's next call: the same filters and limit, the offset raised by
\* limit.
GetNextPage ==
    /\ pages.open
    /\ Len(pages.got) * pages.limit \in Offsets
    /\ \E p \in DescOrders(Select(logs, pages.filter)) :
          /\ ev' = GetLogsResult(logs, pages.filter, pages.limit,
                                 Len(pages.got) * pages.limit, p)
          /\ pages' = [pages EXCEPT !.got = Append(@, ev'.logs)]
    /\ UNCHANGED <<now, logs, seq, sweep, inflight, proc, hub>>

\* The query string of GET /api/logs as the client sends it: profile_id
\* absent, "7" or "x"; since and until absent, a timestamp or "x".
RawProfileIds == {None, Some(<<55>>), Some(<<120>>)}
RawSinces == {None, Some(isoformat(Boot + 1)), Some(<<120>>)}
RawUntils == {None, Some(isoformat(Boot)), Some(<<120>>)}

\* The parameter declared `Optional[int]` (line 268): the framework converts
\* the text to an int before get_logs is called, and answers 422 without
\* calling it when the text is not an integer.
IsIntText(text) == text # <<>> /\ ~IntRaises(text)

\* The defaults of limit and offset (lines 266-267).
DefaultLimit == 100
DefaultOffset == 0

\* GET /api/logs with a query string.  since and until are declared
\* `Optional[str]` (lines 271-272): whatever text they hold reaches get_logs
\* and, when not empty, the WHERE clause (lines 290-295), where SQLite
\* compares it with the timestamp column as text.
GetLogsRequest(rawProfile, since, until) ==
    /\ ev = NoEvent
    /\ LET raw == [profile_id |-> rawProfile, since |-> since, until |-> until]
       IN  IF rawProfile # None /\ ~IsIntText(Val(rawProfile))
           THEN ev' = [op |-> "GET /api/logs", raw |-> raw, status |-> 422, query |-> FALSE]
           ELSE LET f == [NoFilter EXCEPT
                            !.profile_id = IF rawProfile = None THEN None
                                           ELSE Some(ToInt(Val(rawProfile))),
                            !.since = since, !.until = until]
                IN  \E p \in DescOrders(Select(logs, f)) :
                       ev' = [op |-> "GET /api/logs", raw |-> raw, status |-> 200,
                              query |-> TRUE,
                              logs |-> LimitOffset(p, DefaultLimit, DefaultOffset),
                              total |-> Count(logs, f)]
    /\ pages' = NoSession
    /\ UNCHANGED <<now, logs, seq, sweep, inflight, proc, hub>>

NextQuery ==
    \/ \E f \in Filters, limit \in Limits, offset \in Offsets : GetLogs(f, limit, offset)
    \/ GetNextPage
    \/ \E rp \in RawProfileIds, since \in RawSinces, until \in RawUntils :
          GetLogsRequest(rp, since, until)

SpecQuery == InitQuery /\ [][NextQuery]_vars

\* The records specification: the operations of the store specification at
\* one instant and, between any two of them, get_logs called without filter.
GetAllLogs ==
    /\ \E p \in DescOrders(Select(logs, NoFilter)) :
          ev' = GetLogsResult(logs, NoFilter, DefaultLimit, DefaultOffset, p)
    /\ pages' = NoSession
    /\ UNCHANGED <<now, logs, seq, sweep, inflight, proc, hub>>

\* The `before` values of the records specification: absent, and an instant.
RecordsBefore == {None, Some(isoformat(Boot - H(9)))}

NextRecords ==
    \/ \E a \in EmitArgs, ok \in BOOLEAN : LogEvent(a, ok)
    \/ SweepBegin
    \/ \E ok \in BOOLEAN : SweepDelete(ok)
    \/ \E b \in RecordsBefore, okAudit \in BOOLEAN : ClearLogs(b, okAudit)
    \/ ClearLogsRaises
    \/ GetAllLogs

SpecRecords == Init /\ [][NextRecords]_vars

----------------------------------------------------------------------------
(* The hub specification: ConnectionManager and the websocket_realtime      *)
(* handlers, one per client.  Each handler is a task of the one event loop: *)
(* it runs from one await to the next without interruption.                 *)

MaxSnaps == 2

Conns == {"A", "B", "C"}

\* A connection before its client has connected.  `first` is the type of the
\* first message sent to it, `acks` the number of 'connected' messages
\* sent to it, `snaps` the number of positions messages delivered to it,
\* `failed` whether a send to it has raised, `late` whether send_json was
\* called on it after its handler had ended.
NewConn ==
    [pc |-> "new", first |-> "none", acks |-> 0, snaps |-> 0, failed |-> FALSE, late |-> FALSE]

NoPass == [pc |-> "none"]

\* Mutant: the last element is removed.
RemoveLast(list, c) == SubSeq(list, 1, Len(list) - 1)

\* Mutant: nothing is removed.
RemoveNothing(list, c) == list

\* list.remove(c) (line 520): the first occurrence is deleted.
Remove(list, c) ==
    LET i == CHOOSE k \in 1..Len(list) : list[k] = c /\ \A j \in 1..(k - 1) : list[j] # c
    IN  SubSeq(list, 1, i - 1) \o SubSeq(list, i + 1, Len(list))

\* Mutant: the websocket is appended twice.
JoinedTwice(list, c) == Append(Append(list, c), c)

\* self.active_connections.append(websocket) (line 518)
Joined(list, c) == Append(list, c)

\* ConnectionManager.disconnect (lines 519-520)
Disconnect(list, c) == Remove(list, c)

\* Mutant: the acknowledgement is sent twice.
AckedTwice(st) == [st EXCEPT !.first = "connected", !.acks = 2, !.pc = "acking"]

\* line 534: send_json is called with the 'connected' message, which is the
\* first thing handed to the transport for this connection; the handler
\* awaits the send.
Acked(st) ==
    [st EXCEPT !.first = IF @ = "none" THEN "connected" ELSE @,
               !.acks = IF @ < 2 THEN @ + 1 ELSE @,
               !.pc = "acking"]

\* Mutant: the loop sleeps without having sent.
SnapshotSkipped(st) == [st EXCEPT !.pc = "sleeping"]

\* line 537 done: a positions message is delivered; the handler goes to sleep.
SnapshotSent(st) ==
    [st EXCEPT !.first = IF @ = "none" THEN "positions" ELSE @,
               !.snaps = IF @ < MaxSnaps THEN @ + 1 ELSE @,
               !.pc = "sleeping"]

\* Mutant: after the failed send the connection is back where it began.
ClosedReconnects(st) == [st EXCEPT !.pc = "new", !.failed = TRUE]

\* lines 539-543: the send raised; the handler has called disconnect and ended.
Closed(st) == [st EXCEPT !.pc = "closed", !.failed = TRUE]

\* A fan-out pass in progress forgets a connection that is removed under it.
PassAfterRemoval(pass, c) ==
    IF pass.pc = "iter" THEN [pass EXCEPT !.stayed = @ \ {c}] ELSE pass

InitHub ==
    /\ now = Boot
    /\ logs = {}
    /\ seq = 0
    /\ sweep = Idle
    /\ ev = NoEvent
    /\ inflight = NoRequest
    /\ pages = NoSession
    /\ proc = NoProcess
    /\ hub = [active |-> <<>>, conn |-> [c \in Conns |-> NewConn], pass |-> NoPass]

\* websocket_realtime, lines 532-534, for a new client.  accept (line 517) is
\* awaited outside the try of the handler: when it raises, the exception
\* leaves the handler and the connection was never added.  When it returns,
\* the connection is appended (line 518) and send_json is called with the
\* 'connected' message (line 534), with no await in between.
Connect(c, okAccept) ==
    /\ hub.conn[c].pc = "new"
    /\ hub' = IF okAccept
              THEN [hub EXCEPT !.active = Joined(@, c), !.conn[c] = Acked(@)]
              ELSE [hub EXCEPT !.conn[c].pc = "raised"]
    /\ ev' = [op |-> "accept", to |-> c, ok |-> okAccept]
    /\ UNCHANGED <<now, logs, seq, sweep, inflight, pages, proc>>

\* websocket_realtime, lines 534-537 and 539-543: the send of the 'connected'
\* message is over.  When it returned, the handler enters its loop and calls
\* send_json with the first positions message; when it raised, the except
\* clauses call disconnect and the handler ends.
Ack(c, ok) ==
    /\ hub.conn[c].pc = "acking"
    /\ ev' = [op |-> "send_json", by |-> "websocket_realtime", to |-> c,
              type |-> "connected", ok |-> ok, before |-> Len(hub.active)]
    /\ IF ok
       THEN hub' = [hub EXCEPT !.conn[c].pc = "tick"]
       ELSE hub' = [hub EXCEPT !.active = Disconnect(@, c),
                               !.conn[c] = Closed(@),
                               !.pass = PassAfterRemoval(@, c)]
    /\ UNCHANGED <<now, logs, seq, sweep, inflight, pages, proc>>

\* websocket_realtime, lines 536-537 and 539-543: the send of a positions
\* message, pending since the handler entered this pass of its loop, is over.
Snapshot(c, ok) ==
    /\ hub.conn[c].pc = "tick"
    /\ ev' = [op |-> "send_json", by |-> "websocket_realtime", to |-> c,
              type |-> "positions", ok |-> ok, before |-> Len(hub.active)]
    /\ IF ok
       THEN hub' = [hub EXCEPT !.conn[c] = SnapshotSent(@)]
       ELSE hub' = [hub EXCEPT !.active = Disconnect(@, c),
                               !.conn[c] = Closed(@),
                               !.pass = PassAfterRemoval(@, c)]
    /\ UNCHANGED <<now, logs, seq, sweep, inflight, pages, proc>>

\* Mutant: a handler wakes only when no send to another connection is pending.
WakeWaitsForOthers(c) ==
    /\ hub.conn[c].pc = "sleeping"
    /\ \A d \in Conns \ {c} : hub.conn[d].pc \notin {"acking", "tick"}
    /\ hub' = [hub EXCEPT !.conn[c].pc = "tick"]
    /\ ev' = [op |-> "wake", to |-> c]
    /\ UNCHANGED <<now, logs, seq, sweep, inflight, pages, proc>>

\* websocket_realtime, lines 538 and 535-537: asyncio.sleep(1) returns and
\* the handler calls send_json with the next positions message.
Wake(c) ==
    /\ hub.conn[c].pc = "sleeping"
    /\ hub' = [hub EXCEPT !.conn[c].pc = "tick"]
    /\ ev' = [op |-> "wake", to |-> c]
    /\ UNCHANGED <<now, logs, seq, sweep, inflight, pages, proc>>

NextHub ==
    \/ \E c \in Conns, okAccept \in BOOLEAN : Connect(c, okAccept)
    \/ \E c \in Conns, ok \in BOOLEAN : Ack(c, ok)
    \/ \E c \in Conns, ok \in BOOLEAN : Snapshot(c, ok)
    \/ \E c \in Conns : Wake(c)

SpecHub == InitHub /\ [][NextHub]_vars

\* The event loop runs every task that is ready, and every sleep ends.
SpecHubLive ==
    /\ SpecHub
    /\ \A c \in Conns :
          /\ WF_vars(\E ok \in BOOLEAN : Ack(c, ok))
          /\ WF_vars(Wake(c))
          /\ WF_vars(\E ok \in BOOLEAN : Snapshot(c, ok))

\* The connection whose client is slow: its sends may stay pending for ever.
Stalled == "B"

\* The event loop runs every task that is ready and every sleep ends, but
\* nothing makes a send to the slow client complete.
SpecHubStalled ==
    /\ SpecHub
    /\ \A c \in Conns \ {Stalled} :
          /\ WF_vars(\E ok \in BOOLEAN : Ack(c, ok))
          /\ WF_vars(Wake(c))
          /\ WF_vars(\E ok \in BOOLEAN : Snapshot(c, ok))

----------------------------------------------------------------------------
(* The broadcast specification: the handlers of the hub specification and   *)
(* a caller of ConnectionManager.broadcast.  The for loop of broadcast      *)
(* walks the list by index and awaits a send per element, so handlers run,  *)
(* append and remove between two elements.                                  *)

\* A message that broadcast delivers.
BroadcastSent(st) == [st EXCEPT !.first = IF @ = "none" THEN "message" ELSE @]

\* Lines 525-526: the exception of the send is swallowed.
BroadcastSwallowed(st) == [st EXCEPT !.failed = TRUE]

\* broadcast is called (line 521): the iterator of the list starts at index 0.
\* `began` is the active set at that moment, `stayed` the connections active
\* since then, `sent` the connections the pass has sent to.
BroadcastBegin ==
    /\ hub.pass.pc \in {"none", "done"}
    /\ hub' = [hub EXCEPT !.pass = [pc |-> "iter", i |-> 0, began |-> Range(hub.active),
                                    stayed |-> Range(hub.active), sent |-> {}]]
    /\ ev' = [op |-> "broadcast"]
    /\ UNCHANGED <<now, logs, seq, sweep, inflight, pages, proc>>

\* Lines 522-526: the iterator yields the element at its index and moves on;
\* the message is sent to it; an exception of the send is swallowed.
BroadcastSend(ok) ==
    /\ hub.pass.pc = "iter"
    /\ hub.pass.i < Len(hub.active)
    /\ LET c == hub.active[hub.pass.i + 1]
       IN  /\ hub' = [hub EXCEPT
                        !.pass.i = @ + 1,
                        !.pass.sent = @ \cup {c},
                        !.conn[c] = [(IF ok THEN BroadcastSent(@) ELSE BroadcastSwallowed(@))
                                        EXCEPT !.late = @ \/ hub.conn[c].pc = "closed"]]
           /\ ev' = [op |-> "send_json", by |-> "broadcast", to |-> c, type |-> "message",
                     ok |-> ok, before |-> Len(hub.active)]
    /\ UNCHANGED <<now, logs, seq, sweep, inflight, pages, proc>>

\* Line 522: the index has reached the length of the list; the loop ends.
BroadcastEnd ==
    /\ hub.pass.pc = "iter"
    /\ hub.pass.i >= Len(hub.active)
    /\ hub' = [hub EXCEPT !.pass.pc = "done"]
    /\ ev' = [op |-> "broadcast_end"]
    /\ UNCHANGED <<now, logs, seq, sweep, inflight, pages, proc>>

NextBroadcast ==
    \/ NextHub
    \/ BroadcastBegin
    \/ \E ok \in BOOLEAN : BroadcastSend(ok)
    \/ BroadcastEnd

SpecBroadcast == InitHub /\ [][NextBroadcast]_vars

----------------------------------------------------------------------------
(* The sweeper specification: startup_event and the periodic_log_cleanup    *)
(* task it creates.  startup_event awaits nothing, so the task takes its    *)
(* first step only after startup_event has returned.  The specification     *)
(* follows the sleeps of the task tick by tick for ever; the wall clock     *)
(* `now`, which only stamps rows and cutoffs, is followed up to             *)
(* Boot + SweeperTicks and stays there.                                     *)

\* Mutant: the task sleeps two hours.
SleepTwoHours == H(2)

\* asyncio.sleep(3600) (line 236), in ticks
SleepTicks == H(1)

\* The wall clock is followed over two sleeps of the task and one tick more.
SweeperTicks == 2 * SleepTicks + 1

\* Line 237 inside `while True` with no try: an exception of
\* cleanup_old_logs leaves the coroutine and the task is finished.
TaskAfterSweep(task, ok) == IF ok THEN "sleeping" ELSE "dead"

\* Mutant: the task is created before the startup sweep.
StartupOrderSwapped == <<"create_task", "cleanup_old_logs", "log_event">>

\* startup_event, lines 243-245, in the order of the source.
StartupOrder == <<"cleanup_old_logs", "create_task", "log_event">>

\* The step of startup_event after `done` steps.
StartupStep(done) == IF done < Len(StartupOrder) THEN StartupOrder[done + 1] ELSE "return"

SweepEvent(ok, at, seq0, deleted) ==
    IF ok
    THEN [op |-> "cleanup_old_logs", ok |-> TRUE, at |-> at, seq0 |-> seq0, deleted |-> deleted]
    ELSE [op |-> "cleanup_old_logs", ok |-> FALSE]

InitSweeper ==
    /\ now = Boot
    /\ logs \in OldStores
    /\ seq = Cardinality(logs)
    /\ sweep = Idle
    /\ ev = NoEvent
    /\ inflight = NoRequest
    /\ pages = NoSession
    /\ hub = NoHub
    /\ proc = [pc |-> "startup", done |-> 0, task |-> "none", left |-> 0, since |-> 0,
               runs |-> 0]

\* startup_event, line 243: the sweep at startup.  When it raises,
\* startup_event raises and the application does not start.
StartupSweep(ok) ==
    /\ proc.pc = "startup" /\ StartupStep(proc.done) = "cleanup_old_logs"
    /\ logs' = IF ok THEN DeleteBefore(logs, Cutoff(now)) ELSE logs
    /\ ev' = SweepEvent(ok, now, seq, RowCount(logs, logs'))
    /\ proc' = IF ok THEN [proc EXCEPT !.done = @ + 1, !.runs = 1]
                     ELSE [proc EXCEPT !.pc = "aborted"]
    /\ UNCHANGED <<now, seq, sweep, inflight, pages, hub>>

\* startup_event, line 244: the task is created; it has not run yet.
CreateTask ==
    /\ proc.pc = "startup" /\ StartupStep(proc.done) = "create_task"
    /\ proc' = [proc EXCEPT !.done = @ + 1, !.task = "created"]
    /\ ev' = [op |-> "create_task"]
    /\ UNCHANGED <<now, logs, seq, sweep, inflight, pages, hub>>

\* startup_event, line 245: the startup event is logged.  When log_event
\* raises, startup_event raises and the application does not start.
LogStarted(ok) ==
    /\ proc.pc = "startup" /\ StartupStep(proc.done) = "log_event"
    /\ IF ok
       THEN /\ logs' = Insert(logs, seq, now, StartedArgs)
            /\ seq' = NextId(seq)
            /\ proc' = [proc EXCEPT !.done = @ + 1]
       ELSE /\ proc' = [proc EXCEPT !.pc = "aborted"]
            /\ UNCHANGED <<logs, seq>>
    /\ ev' = [op |-> "log_event", ok |-> ok]
    /\ UNCHANGED <<now, sweep, inflight, pages, hub>>

\* startup_event returns: the application serves.
StartupReturn ==
    /\ proc.pc = "startup" /\ StartupStep(proc.done) = "return"
    /\ proc' = [proc EXCEPT !.pc = "serving"]
    /\ ev' = [op |-> "startup_event"]
    /\ UNCHANGED <<now, logs, seq, sweep, inflight, pages, hub>>

\* periodic_log_cleanup, lines 235-236: the task takes its first step and
\* sleeps.
TaskStart ==
    /\ proc.pc = "serving" /\ proc.task = "created"
    /\ proc' = [proc EXCEPT !.task = "sleeping", !.left = SleepTicks, !.since = 0]
    /\ ev' = [op |-> "sleep"]
    /\ UNCHANGED <<now, logs, seq, sweep, inflight, pages, hub>>

\* One tick of time passes while the application serves.  A task whose sleep
\* is over runs before more time passes.
Elapse ==
    /\ proc.pc = "serving" /\ proc.task \in {"sleeping", "dead"}
    /\ proc.task = "sleeping" => proc.left > 0
    /\ now' = IF now < Boot + SweeperTicks THEN now + 1 ELSE now
    /\ proc' = [proc EXCEPT !.left = IF @ > 0 THEN @ - 1 ELSE 0,
                            !.since = IF @ <= SleepTicks THEN @ + 1 ELSE @]
    /\ ev' = [op |-> "tick"]
    /\ UNCHANGED <<logs, seq, sweep, inflight, pages, hub>>

\* periodic_log_cleanup, lines 236-237: the sleep is over, the sweep runs and
\* the loop sleeps again, or the sweep raises.
PeriodicSweep(ok) ==
    /\ proc.pc = "serving" /\ proc.task = "sleeping" /\ proc.left = 0
    /\ logs' = IF ok THEN DeleteBefore(logs, Cutoff(now)) ELSE logs
    /\ ev' = SweepEvent(ok, now, seq, RowCount(logs, logs'))
    /\ proc' = [proc EXCEPT !.task = TaskAfterSweep(@, ok),
                            !.left = IF ok THEN SleepTicks ELSE 0,
                            !.since = IF ok THEN 0 ELSE @,
                            !.runs = IF ok /\ @ < 2 THEN @ + 1 ELSE @]
    /\ UNCHANGED <<now, seq, sweep, inflight, pages, hub>>

NextSweeper ==
    \/ \E ok \in BOOLEAN : StartupSweep(ok)
    \/ CreateTask
    \/ \E ok \in BOOLEAN : LogStarted(ok)
    \/ StartupReturn
    \/ TaskStart
    \/ Elapse
    \/ \E ok \in BOOLEAN : PeriodicSweep(ok)

SpecSweeper == InitSweeper /\ [][NextSweeper]_vars

\* Time passes, and the event loop runs startup_event and the task when they
\* can run.
SpecSweeperLive ==
    /\ SpecSweeper
    /\ WF_vars(\E ok \in BOOLEAN : StartupSweep(ok))
    /\ WF_vars(CreateTask)
    /\ WF_vars(\E ok \in BOOLEAN : LogStarted(ok))
    /\ WF_vars(StartupReturn)
    /\ WF_vars(TaskStart)
    /\ WF_vars(Elapse)
    /\ WF_vars(\E ok \in BOOLEAN : PeriodicSweep(ok))

\* The retention specification: the sweeper specification and, while the
\* application serves, the telemetry events of its requests.
Telemetry(ok) ==
    /\ proc.pc = "serving"
    /\ LogEvent(OldArgs, ok)

NextRetention ==
    \/ NextSweeper
    \/ \E ok \in BOOLEAN : Telemetry(ok)

SpecRetention == InitSweeper /\ [][NextRetention]_vars

----------------------------------------------------------------------------
(* Properties of the store specification *)

\* The instants of the model's clock, and the instant a timestamp text denotes
\* (isoformat read back).
Instants == 0..(H(100) - 1)
fromisoformat(text) ==
    H((text[1] - 48) * 10 + (text[2] - 48)) + (IF Len(text) > 2 THEN text[4] - 48 ELSE 0)
CreatedAt(r) == fromisoformat(r.timestamp)
Ids(rows) == {r.id : r \in rows}

Swept == ev.op = "cleanup_old_logs" /\ ev.ok
Cleared == ev.op = "clear_logs" /\ ev.deleteOk

\* C1: a sweep that computed its cutoff at instant T leaves exactly the rows
\* created at or after T - 48h: every older row is gone, every other row that
\* was there is still there.
C1_SweepPostcondition ==
    [][ Swept' =>
          logs' = {r \in logs : CreatedAt(r) >= ev'.at - H(LOG_RETENTION_HOURS)} ]_vars

\* C1 scenario: rows at T-50h, T-10h and T-1h; the sweep at T deleted one row
\* and left the rows of T-10h and T-1h.
C1_Witness ==
    /\ Swept
    /\ ev.deleted = 1
    /\ Cardinality(logs) = 2
    /\ {CreatedAt(r) : r \in logs} = {ev.at - H(10), ev.at - H(1)}

\* C3: a row inserted after the sweep computed its cutoff and before its
\* DELETE ran is not deleted by that DELETE; and a log_event insert adds
\* exactly one whole row under an id no other row has, leaving the others.
C3_InsertDuringSweep ==
    [][ /\ Swept' => \A r \in logs : r.id > ev'.seq0 => r \in logs'
        /\ (ev'.op = "log_event" /\ ev'.ok) =>
              /\ logs \subseteq logs'
              /\ Cardinality(logs') = Cardinality(logs) + 1
              /\ Cardinality(Ids(logs')) = Cardinality(logs')
              /\ \A r \in logs' \ logs :
                    /\ r.timestamp = isoformat(now)
                    /\ r.level \in {"info", "warning", "error"}
                    /\ r.message # <<>> ]_vars

C3_Witness ==
    /\ Swept
    /\ ev.deleted >= 1
    /\ \E r \in logs : r.id > ev.seq0

\* C8: clear_logs without `before` leaves none of the rows that were there.
C8_ClearAll ==
    [][ (Cleared' /\ ev'.before = None) =>
          /\ logs' \cap logs = {}
          /\ Ids(logs') \cap Ids(logs) = {} ]_vars

C8_Witness ==
    /\ Cleared
    /\ ev.before = None
    /\ ev.deleted >= 2

\* C9: clear_logs with before = T (T written as the store writes instants)
\* deletes the rows created before T and no other: the rows created at or
\* after T are still there, unchanged, and nothing else of the old rows is.
C9_ClearBefore ==
    [][ (Cleared' /\ TruthyText(ev'.before)) =>
          /\ logs' \cap logs =
                {r \in logs : CreatedAt(r) >= fromisoformat(Val(ev'.before))}
          /\ \A s \in logs' \ logs : s.id > seq ]_vars

C9_Witness ==
    /\ Cleared
    /\ TruthyText(ev.before)
    /\ ev.deleted >= 1
    /\ \E r \in logs : r.id < seq /\ CreatedAt(r) = fromisoformat(Val(ev.before))

C29_EmptyCutoff ==
    [][ (Cleared' /\ ev'.before = Some(<<>>)) =>
          /\ logs' \cap logs = {}
          /\ ev'.deleted = Cardinality(logs)
          /\ logs' = IF ev'.ok THEN ClearLogsRows(logs, seq, now, None)
                              ELSE ClearDelete(logs, None) ]_vars

\* C29 witness: a call with the empty text has deleted the two rows or more
\* that were there; the audit row it wrote is the only row.
C29_Witness ==
    /\ Cleared /\ ev.ok /\ ev.before = Some(<<>>)
    /\ ev.deleted >= 2
    /\ \A r \in logs : r.category = "SYSTEM" /\ r.id = seq
    /\ seq > ev.deleted

\* C25: no two rows have the same id, and no row has an id above the last
\* one given.  The last id given never goes down, also when rows or all rows
\* are deleted, and a row that is added has an id above it, so above every id
\* given before and above the id of every row there.
C25_IdsNeverReused ==
    /\ [](\A r1, r2 \in logs : r1.id = r2.id => r1 = r2)
    /\ [](\A r \in logs : r.id <= seq)
    /\ [][ /\ seq' >= seq
           /\ \A r \in logs' \ logs :
                 /\ r.id > seq
                 /\ r.id = seq'
                 /\ \A x \in logs : r.id > x.id ]_vars

\* C25 witness: every row was deleted by a clear_logs call without cutoff,
\* and the audit row written after it has the next id, not the first.
C25_Witness ==
    /\ Cleared /\ ev.ok
    /\ ev.before = None
    /\ ev.deleted >= 2
    /\ \E r \in logs : logs = {r} /\ r.id = seq /\ r.id = ev.deleted + 1

\* C26: a row that is in the store before and after a step is the same in
\* every field; a row that a step adds is a new one, with an id that no row
\* had; and a step of GET /api/logs leaves the store as it was.
C26_RecordsImmutable ==
    [][ /\ \A r \in logs, r2 \in logs' : r.id = r2.id => r2 = r
        /\ \A r2 \in logs' \ logs : r2.id > seq
        /\ (ev' # ev /\ ev'.op = "get_logs") => (logs' = logs /\ seq' = seq) ]_vars

\* C26 witness: a query has returned the rows of a store in which a row of
\* the first ones is still there after rows were deleted and events written.
C26_Witness ==
    /\ ev.op = "get_logs"
    /\ seq > Cardinality(logs)
    /\ \E r \in logs : r.id <= MaxOld /\ r.category = "API"
    /\ \E r \in logs : r.category = "SYSTEM"
    /\ Range(ev.logs) = logs

----------------------------------------------------------------------------
(* Properties of the query specification *)

Min(a, b) == IF a <= b THEN a ELSE b
Max(a, b) == IF a >= b THEN a ELSE b

\* A row was created at or after (at or before) the instant a text denotes;
\* the empty text precedes every timestamp.
AtOrAfter(r, text) == text = <<>> \/ CreatedAt(r) >= fromisoformat(text)
AtOrBefore(r, text) == text # <<>> /\ CreatedAt(r) <= fromisoformat(text)

\* A row satisfies every filter that is supplied, that is, not None.
SatisfiesSupplied(r, f) ==
    /\ (f.profile_id # None => r.profile_id = f.profile_id)
    /\ (f.level # None => r.level = Val(f.level))
    /\ (f.category # None => r.category = Val(f.category))
    /\ (f.since # None => AtOrAfter(r, Val(f.since)))
    /\ (f.until # None => AtOrBefore(r, Val(f.until)))

\* A row satisfies every filter that is supplied and, for the four text
\* filters, not empty.
SatisfiesGiven(r, f) ==
    /\ (f.profile_id # None => r.profile_id = f.profile_id)
    /\ (TruthyStr(f.level) => r.level = Val(f.level))
    /\ (TruthyStr(f.category) => r.category = Val(f.category))
    /\ (TruthyText(f.since) => AtOrAfter(r, Val(f.since)))
    /\ (TruthyText(f.until) => AtOrBefore(r, Val(f.until)))

Matching(f) == {r \in logs : SatisfiesGiven(r, f)}
Queried == ev.op = "get_logs"
Unbounded == ev.limit < 0 /\ ev.offset <= 0

RECURSIVE Concat(_)
Concat(ps) == IF ps = <<>> THEN <<>> ELSE Head(ps) \o Concat(Tail(ps))

\* The walk has covered every offset below the number of matching rows.
WalkDone ==
    pages.open /\ Len(pages.got) * pages.limit >= Cardinality(Matching(pages.filter))

IsSliceOfDescending(page, matching, limit, offset) ==
    /\ \A i \in 1..Len(page) : page[i] \in matching
    /\ \A i, j \in 1..Len(page) : i # j => page[i] # page[j]
    /\ \A i \in 1..(Len(page) - 1) : CreatedAt(page[i]) >= CreatedAt(page[i + 1])
    /\ Len(page) = Min(limit, Max(0, Cardinality(matching) - offset))
    /\ \A i \in 1..Len(page) :
          /\ Cardinality({m \in matching : CreatedAt(m) > CreatedAt(page[i])}) <= offset + i - 1
          /\ Cardinality({m \in matching : CreatedAt(m) >= CreatedAt(page[i])}) >= offset + i

\* C7 as stated: the list is in descending order of timestamp, holds at most
\* limit rows and is the slice [offset, offset+limit) of the matching rows in
\* descending order.
C7_OrderedSlice ==
    Queried =>
        /\ Len(ev.logs) <= ev.limit
        /\ IsSliceOfDescending(ev.logs, Matching(ev.filter), ev.limit, ev.offset)

\* C7 amended: the same, for limit >= 0 and offset >= 0.
C7_OrderedSliceNonNegative ==
    (Queried /\ ev.limit >= 0 /\ ev.offset >= 0) =>
        /\ Len(ev.logs) <= ev.limit
        /\ IsSliceOfDescending(ev.logs, Matching(ev.filter), ev.limit, ev.offset)

\* C7 witness: the second page of one row, with a more recent row before it
\* and another row after it.
C7_Witness ==
    /\ Queried
    /\ ev.limit = 1 /\ ev.offset = 1
    /\ Len(ev.logs) = 1
    /\ ev.total = 3
    /\ \E r \in Matching(ev.filter) : CreatedAt(r) > CreatedAt(ev.logs[1])

----------------------------------------------------------------------------
(* Properties of the request specification *)

\* C2: whatever happens to the log_event write, the caller receives exactly
\* the response the handler produced and no error leaves the middleware:
\* a request that the handler has answered never ends with dispatch raising.
C2_ResponseUnchanged ==
    /\ inflight.pc # "raised"
    /\ inflight.pc = "returned" => inflight.returned = inflight.response

Finished == {"returned", "raised", "failed"}

\* C11: the step that ends a request adds to the store exactly one row, of
\* that request's path and method, when the path is outside the exclusion
\* set, and leaves the store as it was when the path starts with /static or
\* is /api/health.
C11_OnePerRequest ==
    [][ (inflight.pc \in {"received", "responded"} /\ inflight'.pc \in Finished) =>
          IF Logged(inflight.req.path)
          THEN /\ Cardinality(logs') = Cardinality(logs) + 1
               /\ \E r \in logs' \ logs :
                     /\ logs' = logs \cup {r}
                     /\ r.endpoint = Some(inflight.req.path)
                     /\ r.method = Some(inflight.req.method)
          ELSE logs' = logs ]_vars

\* C12: every row the middleware has written has level error when its
\* response status is 500 or more, warning when it is from 400 to 499, and
\* info otherwise; and the status of the row written for a request is the
\* status of the response returned for it.
C12_Severity ==
    /\ \A r \in logs :
          LET s == Val(r.response_status)
          IN  /\ (s >= 500 => r.level = "error")
              /\ (400 <= s /\ s < 500 => r.level = "warning")
              /\ (s < 400 => r.level = "info")
    /\ (inflight.pc = "returned" /\ Logged(inflight.req.path)) =>
          \E r \in logs : r.id = seq /\ r.response_status = Some(inflight.returned.status_code)

\* C12 witness: rows written at the boundaries of the three classes.
C12_Witness ==
    \E r1, r2 \in logs :
        /\ {r1.response_status, r2.response_status} \in
              {{Some(499), Some(500)}, {Some(399), Some(400)}}
        /\ r1.level # r2.level
        /\ inflight.pc = "returned"

\* C23: a row is written only by the step that follows the handler's
\* response and that returns it: the row carries the status of the response
\* the handler computed, and the response returned is that response.  A
\* response is returned only after the handler has answered and, for a path
\* that is logged, by the step that writes the row.
C23_LogThenReturn ==
    [][ /\ (logs' # logs) =>
              /\ inflight.pc = "responded"
              /\ inflight'.pc = "returned"
              /\ inflight'.returned = inflight.response
              /\ \E r \in logs' \ logs :
                    /\ logs' = logs \cup {r}
                    /\ r.response_status = Some(inflight.response.status_code)
                    /\ r.endpoint = Some(inflight.req.path)
        /\ (inflight.pc # "returned" /\ inflight'.pc = "returned") =>
              /\ inflight.pc = "responded"
              /\ inflight'.returned = inflight.response
              /\ (Logged(inflight.req.path) => logs' # logs) ]_vars

\* C23 witness: the second request was answered 500, its row is written and
\* its response is returned.
C23_Witness ==
    /\ inflight.pc = "returned"
    /\ Logged(inflight.req.path)
    /\ inflight.returned.status_code = 500
    /\ Cardinality(logs) = 2
    /\ \E r \in logs : r.id = seq /\ r.response_status = Some(500)

----------------------------------------------------------------------------
(* Properties of the capture specification *)

\* The capture of the request's body raised and was swallowed.
CaptureFailed(req) ==
    /\ req.method \in BodyMethods
    /\ ~req.body.readable \/ DecodeRaises(req.body.bytes)

\* The number of characters of a well-formed text.
Characters(bytes) == Cardinality({i \in 1..Len(bytes) : ~IsContinuation(bytes[i])})

\* C24: the request_body of every row is absent or holds at most 1000
\* characters and belongs to a POST, PUT or PATCH request.  For the request
\* in hand: the body of any other method is not captured; a body that cannot
\* be read or decoded leaves request_body absent, and then the handler can
\* still be called and the request can still return its response; a captured
\* body is the first 1000 characters of the text.  The row written for a
\* request holds the request_body captured for it.
C24_BodyCapture ==
    /\ [](\A r \in logs :
            \/ r.request_body = None
            \/ /\ Len(Val(r.request_body)) <= BodyCap
               /\ Val(r.method) \in BodyMethods)
    /\ [](inflight.pc # "none" =>
            LET req == inflight.req
            IN  /\ req.method \notin BodyMethods => req.request_body = None
                /\ CaptureFailed(req) => req.request_body = None
                /\ req.request_body # None =>
                      LET text == Val(req.request_body)
                          n == Characters(req.body.bytes)
                      IN  /\ Len(text) = IF n <= BodyCap THEN n ELSE BodyCap
                          /\ (\A i \in 1..Len(req.body.bytes) : req.body.bytes[i] < 128)
                                => text = SubSeq(req.body.bytes, 1, Len(text))
                /\ (inflight.pc = "received" /\ CaptureFailed(req)) => ENABLED CallNext(200)
                /\ (inflight.pc = "responded" /\ CaptureFailed(req)) =>
                      ENABLED (LogAndReturn(TRUE) /\ inflight'.pc = "returned"))
    /\ [][ \A r \in logs' \ logs : r.request_body = inflight.req.request_body ]_vars

\* C24 witness: a POST whose body could not be captured has returned and its
\* row has no request_body, next to a row that holds the first 1000
\* characters of a body of 1001.
C24_Witness ==
    /\ inflight.pc = "returned"
    /\ CaptureFailed(inflight.req)
    /\ \E r \in logs : r.id = seq /\ r.request_body = None /\ r.method = Some(inflight.req.method)
    /\ \E r \in logs :
          /\ r.request_body # None
          /\ Len(Val(r.request_body)) = BodyCap
          /\ Val(r.request_body)[1] = 233

----------------------------------------------------------------------------
(* Properties of the hub specification *)

\* The handler of c is in its loop.
Running(c) == hub.conn[c].pc \in {"acking", "tick", "sleeping"}
Active == Range(hub.active)
\* The last step was a send_json of `type` to c, made by c's handler.
HandlerSend(e, c, type) ==
    e.op = "send_json" /\ e.by = "websocket_realtime" /\ e.to = c /\ e.type = type

\* C14: a send that fails on one connection ends that connection's handler
\* without an exception leaving it, and changes nothing of any other
\* connection: the others keep their place in the active set and in their
\* loops, and the active set is at every moment exactly the connections
\* whose loops are running.
C14_FailureIsolation ==
    /\ [](\A c \in Conns : hub.conn[c].failed => hub.conn[c].pc = "closed")
    /\ [](Active = {c \in Conns : Running(c)} /\ Len(hub.active) = Cardinality(Active))
    /\ [][ (ev'.op = "send_json" /\ ~ev'.ok) =>
             \A d \in Conns \ {ev'.to} :
                 /\ hub'.conn[d] = hub.conn[d]
                 /\ (d \in Active <=> d \in Range(hub'.active)) ]_vars

\* C14 scenario: A, B and C were active, a send to B failed, and after it a
\* snapshot is delivered to C while A is served too; two connections are
\* active.
C14_Witness ==
    /\ hub.conn["B"].pc = "closed" /\ hub.conn["B"].failed /\ hub.conn["B"].snaps >= 1
    /\ HandlerSend(ev, "C", "positions") /\ ev.ok
    /\ hub.conn["A"].snaps = MaxSnaps /\ hub.conn["C"].snaps = MaxSnaps
    /\ Running("A")
    /\ Len(hub.active) = 2

C16_Handshake ==
    /\ [](\A c \in Conns :
            /\ hub.conn[c].acks <= 1
            /\ hub.conn[c].first \in {"none", "connected"}
            /\ (hub.conn[c].snaps > 0 => hub.conn[c].first = "connected")
            /\ (c \in Active => hub.conn[c].acks = 1 /\ hub.conn[c].first = "connected"))
    /\ [][ \A c \in Conns :
             (hub.conn[c].pc = "new" /\ hub'.conn[c].pc \notin {"new", "raised"}) =>
                 /\ hub'.conn[c].pc = "acking"
                 /\ hub'.conn[c].acks = 1 /\ hub'.conn[c].first = "connected"
                 /\ c \in Range(hub'.active) /\ c \notin Active ]_vars
    /\ [][ \A c \in Conns :
             (hub.conn[c].pc = "acking" /\ hub'.conn[c].pc # "acking") =>
                 HandlerSend(ev', c, "connected") ]_vars

\* C16 witness: an active connection has its acknowledgement and snapshots
\* after it.
C16_Witness ==
    \E c \in Conns :
        /\ c \in Active
        /\ hub.conn[c].acks = 1 /\ hub.conn[c].first = "connected"
        /\ hub.conn[c].snaps = MaxSnaps

\* The state of a connection in the words of the state machine.  A handshake
\* that accept() refuses ends the handler before the connection exists for
\* the hub: it is "refused", and was never active.
ConnState(st) ==
    CASE st.pc = "new" -> "connecting"
      [] st.pc \in {"acking", "tick", "sleeping"} -> "active"
      [] st.pc = "closed" -> "closed"
      [] st.pc = "raised" -> "refused"

\* C21: a connection goes from connecting to active, when its handshake is
\* accepted, and from active to closed, when a send of its handler fails, and
\* makes no other change of state: closed is final, as is a refused
\* handshake.  At every moment the active set holds exactly the connections
\* in state active, which are those whose handshake was accepted (they have
\* been sent their acknowledgement) and on which no send has failed.
C21_Lifecycle ==
    /\ [][ \A c \in Conns :
             LET before == ConnState(hub.conn[c])
                 after == ConnState(hub'.conn[c])
             IN  \/ after = before
                 \/ before = "connecting" /\ after = "active" /\ ev' = [op |-> "accept", to |-> c, ok |-> TRUE]
                 \/ before = "connecting" /\ after = "refused" /\ ev' = [op |-> "accept", to |-> c, ok |-> FALSE]
                 \/ before = "active" /\ after = "closed" /\ ev'.op = "send_json" /\ ev'.to = c /\ ~ev'.ok ]_vars
    /\ [](\A c \in Conns :
            /\ c \in Active <=> ConnState(hub.conn[c]) = "active"
            /\ c \in Active <=> (hub.conn[c].acks = 1 /\ ~hub.conn[c].failed)
            /\ ConnState(hub.conn[c]) = "refused" => hub.conn[c].acks = 0)

\* C21 witness: one connection is closed after having been served, one is
\* active, and one is still connecting.
C21_Witness ==
    \E c, d, e \in Conns :
        /\ ConnState(hub.conn[c]) = "closed" /\ hub.conn[c].snaps >= 1 /\ c \notin Active
        /\ ConnState(hub.conn[d]) = "active" /\ d \in Active
        /\ ConnState(hub.conn[e]) = "connecting"

\* The step calls ConnectionManager.disconnect for c: a send of c's handler
\* has raised.
Disconnects(e, c) ==
    e.op = "send_json" /\ e.by = "websocket_realtime" /\ e.to = c /\ ~e.ok

\* C28: the active list holds no connection twice.  A step that calls
\* disconnect for a connection finds it in the list, on a connection for
\* which disconnect was not called before, and takes it out of the list;
\* once disconnect was called for a connection it is not called for it
\* again; and a connection leaves the list in no other way.
C28_RegistryWellFormed ==
    /\ [](\A i, j \in 1..Len(hub.active) : hub.active[i] = hub.active[j] => i = j)
    /\ [][ \A c \in Conns :
             /\ Disconnects(ev', c) =>
                   /\ c \in Range(hub.active)
                   /\ ~hub.conn[c].failed
                   /\ hub'.conn[c].failed
                   /\ c \notin Range(hub'.active)
                   /\ Len(hub'.active) = Len(hub.active) - 1
             /\ hub.conn[c].failed => (hub'.conn[c].failed /\ c \notin Range(hub'.active))
             /\ (c \in Range(hub.active) /\ c \notin Range(hub'.active)) => Disconnects(ev', c) ]_vars

\* C28 witness: disconnect has been called for two of three connections, the
\* second time just now, and the third is alone in the list.
C28_Witness ==
    \E c, d, e \in Conns :
        /\ c # d
        /\ hub.conn[c].failed /\ hub.conn[d].failed
        /\ Disconnects(ev, d) /\ ev.before = 2
        /\ hub.active = <<e>>

\* A send to c is pending.
Pending(c) == hub.conn[c].pc \in {"acking", "tick"}

\* C22: while a send to one connection is pending, every other handler can
\* take its next step: its sleep can end and its own send can complete.  A
\* connection other than the slow one that stays active is delivered
\* snapshots again and again, even if the sends to the slow one never
\* complete.  When a pending send completes, the handler sleeps before it
\* sends again and one message is counted: the ticks that passed meanwhile
\* are not made up for.
C22_SlowConsumer ==
    /\ [](\A c, d \in Conns :
            (c # d /\ Pending(c)) =>
                /\ (hub.conn[d].pc = "sleeping" => ENABLED Wake(d))
                /\ (hub.conn[d].pc = "tick" => ENABLED Snapshot(d, TRUE)))
    /\ \A d \in Conns \ {Stalled} :
          <>[]Running(d) => []<>(HandlerSend(ev, d, "positions") /\ ev.ok)
    /\ [][ \A c \in Conns :
             (hub.conn[c].pc = "tick" /\ hub'.conn[c].pc # "tick") =>
                 /\ hub'.conn[c].pc \in {"sleeping", "closed"}
                 /\ hub'.conn[c].snaps <= hub.conn[c].snaps + 1 ]_vars

\* C22 witness: the first snapshot for the slow connection is still pending
\* while the two others have been delivered snapshot after snapshot.
C22_Witness ==
    /\ hub.conn[Stalled].pc = "tick" /\ hub.conn[Stalled].snaps = 0
    /\ \A d \in Conns \ {Stalled} : Running(d) /\ hub.conn[d].snaps = MaxSnaps
    /\ \E d \in Conns \ {Stalled} : HandlerSend(ev, d, "positions") /\ ev.ok

----------------------------------------------------------------------------
(* Properties of the broadcast specification *)

C20_PassSkipsNone ==
    /\ hub.pass.pc = "done" => hub.pass.stayed \subseteq hub.pass.sent
    /\ \A c \in Conns : ~hub.conn[c].late

----------------------------------------------------------------------------
(* Properties of the sweeper specification *)

\* The last step was a sweep that returned.
JustSwept == ev.op = "cleanup_old_logs" /\ ev.ok
StartedLogged == \E r \in logs : r.message = <<"Server started">>

\* The order and the period of the sweeps: one sweep has run before the task
\* exists and before the startup event is in the store, and only one while
\* startup_event runs; a sleeping task wakes SleepTicks after it went to
\* sleep; the step a task takes when its sleep is over is a sweep, and no
\* sweep runs at another time once the application serves.
SweepSchedule ==
    /\ []((proc.task # "none" \/ StartedLogged) => proc.runs >= 1)
    /\ [](proc.pc = "startup" => proc.runs <= 1)
    /\ [](proc.task = "sleeping" => proc.since + proc.left = SleepTicks)
    /\ [][ (proc.task = "sleeping" /\ proc.left = 0 /\ proc' # proc) =>
             ev'.op = "cleanup_old_logs" ]_vars
    /\ [][ (proc.pc = "serving" /\ ev'.op = "cleanup_old_logs" /\ proc' # proc) =>
             (proc.task = "sleeping" /\ proc.since = SleepTicks) ]_vars

C19_SweeperSurvives ==
    (proc.pc = "serving" /\ ev.op = "cleanup_old_logs" /\ ~ev.ok) => proc.task = "sleeping"

\* The age of a row.
Age(r) == now - CreatedAt(r)

----------------------------------------------------------------------------
(* Properties of the query specification: the query string *)

\* A text is a timestamp when isoformat produces it for some instant.
IsTimestamp(text) == \E t \in Instants : isoformat(t) = text

Malformed(raw) ==
    \/ raw.profile_id # None /\ ~IsIntText(Val(raw.profile_id))
    \/ raw.since # None /\ ~IsTimestamp(Val(raw.since))
    \/ raw.until # None /\ ~IsTimestamp(Val(raw.until))

\* C18: a request whose profile_id is not a number, or whose since or until
\* is not a timestamp, is answered with a 4xx status and runs no query on the
\* store.
C18_MalformedRejected ==
    (ev.op = "GET /api/logs" /\ Malformed(ev.raw)) =>
        (ev.status \in 400..499 /\ ~ev.query)

====
